---- MODULE Spec2Model ----
(***************************************************************************)
(* A model of the jsdb storage engine: JsonCollectionManager (the default  *)
(* export of collection.ts), its id -> shard index HashMap (the revision   *)
(* with the `oversize` parameter) and the AsyncQueue that serializes the   *)
(* collection's tasks and the index's saves.                               *)
(*                                                                         *)
(* Scheduling follows the node event loop.  A client call runs its         *)
(* synchronous part at once; promise continuations are jobs of `microQ`,   *)
(* run in FIFO order; completions of file I/O are separate steps that run  *)
(* only when `microQ` is empty.  Shard files are touched by queue tasks    *)
(* only, one at a time, so the reads and the write of one task are taken   *)
(* together at the step where the task's last I/O completes.               *)
(***************************************************************************)
EXTENDS Integers, Sequences, FiniteSets, TLC

----------------------------------------------------------------------------
(* Bounds of the model *)

\* client calls issued in one behaviour
MaxCalls == 3

\* constructor parameter maxFileSize (51200 by default), scaled to the documents below
maxFileSize == 20

----------------------------------------------------------------------------
(* Documents.  A document is a function from field names to numbers; the   *)
(* fields of a JS object that are set are its domain.                      *)

\* the documents insert is called with: 7 and 14 bytes, one with an id of its own
Docs == {[a |-> 1], [a |-> 1, id |-> 7]}
\* the payloads update is called with
Patches == {[a |-> 2], [b |-> 3], [id |-> 2]}
\* the ids get, update and delete are called with
Keys == {1, 2, 3}
\* the id lists getMany is called with
IdLists == {<<1, 2>>, <<2, 1>>}

\* the value `undefined` (Array.prototype.find without a match)
Undefined == [undefined |-> TRUE]
\* no document at all: a field of a record that does not apply
NoDoc == [none |-> TRUE]
\* the value null of index.get, and the path of tasks that have none
NoPath == [loc |-> "null", ts |-> 0]

\* `${directoryPath}/${timestamp}.json`
FullPath(ts) == [loc |-> "dir", ts |-> ts]
\* path.basename(filePath): `${timestamp}.json`, which as a path names a
\* file of the working directory, not of the collection's directory
Basename(p) == [loc |-> "cwd", ts |-> p.ts]

Max(a, b) == IF a >= b THEN a ELSE b

\* { ...item, ...data }
Spread(item, data) ==
  [f \in (DOMAIN item) \cup (DOMAIN data) |->
     IF f \in DOMAIN data THEN data[f] ELSE item[f]]

\* { ...data, id }
WithId(data, i) == Spread(data, [id |-> i])

\* jsonData.find((item) => item.id === id)
Find(arr, i) ==
  IF \E k \in 1..Len(arr) : arr[k].id = i
  THEN arr[CHOOSE k \in 1..Len(arr) :
             arr[k].id = i /\ \A j \in 1..(k - 1) : arr[j].id # i]
  ELSE Undefined

\* a filter that keeps the record with the id and drops the others
WithoutOthers(arr, i) == SelectSeq(arr, LAMBDA item : item.id = i)

\* jsonData.filter((item) => item.id !== id)
Without(arr, i) == SelectSeq(arr, LAMBDA item : item.id # i)

\* the item replaced by the payload with its id, not merged with it
MapReplace(arr, i, data) ==
  [k \in 1..Len(arr) |-> IF arr[k].id = i THEN WithId(data, i) ELSE arr[k]]

\* jsonData.map((item) => item.id === id ? { ...item, ...data } : item)
MapUpdate(arr, i, data) ==
  [k \in 1..Len(arr) |-> IF arr[k].id = i THEN Spread(arr[k], data) ELSE arr[k]]

----------------------------------------------------------------------------
(* getSizeInBytes: the byte length of JSON.stringify(object) *)

KeyLen(f) == IF f = "id" THEN 2 ELSE 1
Digits(n) == IF n < 10 THEN 1 ELSE IF n < 100 THEN 2 ELSE 3

RECURSIVE FieldsSize(_, _)
\* the members "k":v of the fields S of d, without the separating commas
FieldsSize(d, S) ==
  IF S = {} THEN 0
  ELSE LET f == CHOOSE g \in S : TRUE
       IN KeyLen(f) + 3 + Digits(d[f]) + FieldsSize(d, S \ {f})

\* getSizeInBytes of one document: {"a":1,"id":1}
DocSize(d) ==
  2 + FieldsSize(d, DOMAIN d) + Max(Cardinality(DOMAIN d) - 1, 0)

RECURSIVE DocsSize(_)
DocsSize(arr) == IF arr = <<>> THEN 0 ELSE DocSize(Head(arr)) + DocsSize(Tail(arr))

\* getSizeInBytes of a shard's array: [{...},{...}]; "[]" has 2 bytes
ArraySize(arr) == 2 + DocsSize(arr) + Max(Len(arr) - 1, 0)

----------------------------------------------------------------------------
(* HashMap: the index.  `store` maps keys "start-end" to shard paths and   *)
(* holds the key 'currentId'; Object.keys lists string keys in insertion   *)
(* order, so the ranges are a sequence.  currentId = 0: the key is unset.  *)

EmptyStore == [currentId |-> 0, ranges |-> <<>>]

\* getKey: the first key, in key order, with start <= id < end (0: null)
GetKey(st, i) ==
  IF \E k \in 1..Len(st.ranges) : i >= st.ranges[k].start /\ i < st.ranges[k].end
  THEN CHOOSE k \in 1..Len(st.ranges) :
         /\ i >= st.ranges[k].start /\ i < st.ranges[k].end
         /\ \A j \in 1..(k - 1) :
              ~(i >= st.ranges[j].start /\ i < st.ranges[j].end)
  ELSE 0

\* delete this.store[`${s}-${e}`]
DelKey(rs, s, e) == SelectSeq(rs, LAMBDA r : ~(r.start = s /\ r.end = e))

\* this.store[`${s}-${e}`] = v: an existing key keeps its place
SetKey(rs, s, e, v) ==
  IF \E k \in 1..Len(rs) : rs[k].start = s /\ rs[k].end = e
  THEN [k \in 1..Len(rs) |->
          IF rs[k].start = s /\ rs[k].end = e THEN [rs[k] EXCEPT !.value = v] ELSE rs[k]]
  ELSE Append(rs, [start |-> s, end |-> e, value |-> v])

\* delete the key and set it again with another end
Rekey(rs, r, newEnd, v) == SetKey(DelKey(rs, r.start, r.end), r.start, newEnd, v)

RECURSIVE MaxEnd(_)
\* Math.max of the ends of all range keys
MaxEnd(rs) == IF rs = <<>> THEN 0 ELSE Max(Head(rs).end, MaxEnd(Tail(rs)))

\* Object.keys(this.store).length
KeyCount(st) == Len(st.ranges) + (IF st.currentId # 0 THEN 1 ELSE 0)

\* HashMap.insert(id, value, true)
InsertOversize(st, i, value) ==
  LET k == GetKey(st, i)
      shrunk == IF k # 0
                THEN Rekey(st.ranges, st.ranges[k], st.ranges[k].end - 2, st.ranges[k].value)
                ELSE st.ranges
  IN [currentId |-> i, ranges |-> SetKey(shrunk, i, i + 2, value)]

\* HashMap.insert(id, value)
InsertPlain(st, i, value) ==
  LET k == GetKey(st, i)
      currentStoreId == IF st.currentId # 0 THEN st.currentId ELSE 1
      st1 == IF i > currentStoreId THEN [st EXCEPT !.currentId = i] ELSE st
  IN IF k # 0
     THEN [st1 EXCEPT !.ranges =
             Rekey(st.ranges, st.ranges[k], Max(st.ranges[k].end, i + 2), value)]
     ELSE LET k2 == IF KeyCount(st1) > 1 THEN GetKey(st1, MaxEnd(st1.ranges) - 2) ELSE 0
              shrunk == IF k2 # 0
                        THEN Rekey(st1.ranges, st1.ranges[k2], st1.ranges[k2].end - 1,
                                   st1.ranges[k2].value)
                        ELSE st1.ranges
          IN [st1 EXCEPT !.ranges = SetKey(shrunk, i, i + 2, value)]

\* HashMap.insert
IndexInsert(st, i, value, oversize) ==
  IF oversize THEN InsertOversize(st, i, value) ELSE InsertPlain(st, i, value)

\* HashMap.get: this.store[rangeKey] || null
IndexGet(st, i) ==
  LET k == GetKey(st, i) IN IF k = 0 THEN NoPath ELSE st.ranges[k].value

\* HashMap.delete, for an id that has a key (it throws otherwise)
IndexDelete(st, i) ==
  LET k == GetKey(st, i)
  IN [st EXCEPT !.ranges = DelKey(st.ranges, st.ranges[k].start, st.ranges[k].end)]

----------------------------------------------------------------------------
(* The state *)

VARIABLES
  id,           \* JsonCollectionManager.id, the id counter (0: undefined)
  fileSizes,    \* JsonCollectionManager.fileSizes, in key order
  store,        \* HashMap.store of the collection's index
  disk,         \* the files that exist, by path: the array each one holds
  indexFile,    \* the content of index.json
  idx,          \* the index's AsyncQueue of saveToFile tasks
  queue,        \* AsyncQueue.queue of the collection
  isProcessing, \* AsyncQueue.isProcessing of the collection
  cur,          \* the task processQueue is awaiting
  microQ,       \* the promise jobs that are due, in order
  clock,        \* the last reading of new Date().getTime() that named a shard
  calls,        \* history: the number of client calls made
  done,         \* history: the call that settled last, with its result
  insDocs,      \* history: the documents passed to insert, in call order
  insDone,      \* history: the ids whose insert has resolved
  touched,      \* history: the ids update or delete has been called with
  batch,        \* history: every call so far was an insert made before any insert resolved
  up,           \* a JsonCollectionManager is constructed over the directory and its process runs
  prev,         \* history: the index of the instance that ended last, and how it ended
  wheres,       \* history: the number of calls of where
  aq            \* an AsyncQueue of its own, with tasks that may fail

vars == <<id, fileSizes, store, disk, indexFile, idx, queue, isProcessing, cur,
          microQ, clock, calls, done, insDocs, insDone, touched, batch,
          up, prev, wheres, aq>>

Task(op, i, data, path, ids, n, known) ==
  [op |-> op, id |-> i, data |-> data, path |-> path, ids |-> ids, acc |-> <<>>,
   n |-> n, known |-> known]

NoTask == Task("none", 0, NoDoc, NoPath, <<>>, 0, FALSE)

\* a promise job: the continuation of findFileForInsertion after its await
\* ("find"), the continuation of insert after its await ("cont"), the
\* continuation of processQueue after `await item.callback()` ("pq")
Job(kind, t) == [kind |-> kind, task |-> t]

\* the settled promise of a call: resolve(value) or reject(error)
Settled(t, status, value, values, errId) ==
  [op |-> t.op, id |-> t.id, data |-> t.data, ids |-> t.ids, n |-> t.n,
   known |-> t.known, status |-> status, value |-> value, values |-> values,
   errId |-> errId]

NoSnap == EmptyStore

\* the counter without its increment
NextIdStuck(i) == IF i # 0 THEN i ELSE 1

\* this.id = this.id ? this.id + 1 : 1
NextId(i) == IF i # 0 THEN i + 1 ELSE 1

\* the loop of findFileForInsertion: the first entry with
\* size + dataSize <= maxFileSize (0: none)
FirstFit(fs, dataSize) ==
  IF \E k \in 1..Len(fs) : fs[k].size + dataSize <= maxFileSize
  THEN CHOOSE k \in 1..Len(fs) :
         /\ fs[k].size + dataSize <= maxFileSize
         /\ \A j \in 1..(k - 1) : ~(fs[j].size + dataSize <= maxFileSize)
  ELSE 0

\* this.fileSizes[key] = size
SetSize(fs, key, size) ==
  IF \E k \in 1..Len(fs) : fs[k].key = key
  THEN [k \in 1..Len(fs) |-> IF fs[k].key = key THEN [fs[k] EXCEPT !.size = size] ELSE fs[k]]
  ELSE Append(fs, [key |-> key, size |-> size])

\* delete this.fileSizes[key]
DelSize(fs, key) == SelectSeq(fs, LAMBDA e : e.key # key)

\* readJsonFile: the parsed array, [] for no path or a file that cannot be read
ReadJsonFile(d, p) == IF p \in DOMAIN d THEN d[p] ELSE <<>>

\* fs.writeFile(filePath, JSON.stringify(arr))
WriteFile(d, p, arr) == [q \in (DOMAIN d) \cup {p} |-> IF q = p THEN arr ELSE d[q]]

\* fs.unlink(filePath)
Unlink(d, p) == [q \in (DOMAIN d) \ {p} |-> d[q]]

\* a save that is enqueued while another one is being written is dropped
EnqueueSaveOnce(q, st) ==
  IF q.isProcessing
  THEN q
  ELSE [pending |-> 0, isProcessing |-> TRUE, snap |-> st]

\* HashMap.enqueueSaveToFile: AsyncQueue.enqueue starts processQueue when
\* the queue is not processing, and saveToFile serializes the store as it
\* is when the task starts
EnqueueSave(q, st) ==
  IF q.isProcessing
  THEN [q EXCEPT !.pending = @ + 1]
  ELSE [pending |-> 0, isProcessing |-> TRUE, snap |-> st]

\* the content of an index file that JSON.parse rejects
Unparsable == [unparsable |-> TRUE]

\* no instance has ended yet
NoPrev == [store |-> EmptyStore, clean |-> FALSE, n |-> 0, id |-> 0]

\* new AsyncQueue(): nothing queued, not processing, no listener; with the
\* history of its tasks (numbered in the order of enqueue) and the log of
\* what happened: tasks starting and settling, events delivered
NewQueue ==
  [queue |-> <<>>, isProcessing |-> FALSE, running |-> 0, due |-> "none",
   listener |-> FALSE, fails |-> {}, enqueued |-> 0, started |-> <<>>,
   finished |-> <<>>, idles |-> 0, periods |-> 0, log |-> <<>>]

\* the state after `new JsonCollectionManager(directoryPath)` over a
\* directory that does not exist: both loadFromFile find no index file,
\* and HashMap.loadFromFile writes '{}'
Init ==
  /\ id = 0
  /\ fileSizes = <<>>
  /\ store = EmptyStore
  /\ disk = << >>
  /\ indexFile = EmptyStore
  /\ idx = [pending |-> 0, isProcessing |-> FALSE, snap |-> NoSnap]
  /\ queue = <<>>
  /\ isProcessing = FALSE
  /\ cur = NoTask
  /\ microQ = <<>>
  /\ clock = 0
  /\ calls = 0
  /\ done = Settled(NoTask, "none", NoDoc, <<>>, 0)
  /\ insDocs = <<>>
  /\ insDone = {}
  /\ touched = {}
  /\ batch = TRUE
  /\ up = TRUE
  /\ prev = NoPrev
  /\ wheres = 0
  /\ aq = NewQueue

----------------------------------------------------------------------------
(* AsyncQueue of the collection *)

\* the id a task looks up in the index when it starts
FirstId(t) == IF t.op = "getMany" THEN t.ids[1] ELSE t.id

\* the error of a task whose id the index does not resolve: get and getMany
\* throw "No data found for id"; update and delete pass the null path to
\* fs.writeFile, which rejects with a TypeError
MissStatus(t) == IF t.op \in {"get", "getMany"} THEN "NotFound" ELSE "TypeError"

\* processQueue: item.callback() runs up to its first file I/O.  get,
\* getMany, update and delete resolve the shard with index.get first; with
\* no shard they reject before any I/O.  mq: the jobs due after this step.
Begin(t, mq) ==
  IF t.op \in {"get", "getMany", "update", "delete"} /\ IndexGet(store, FirstId(t)) = NoPath
  THEN /\ cur' = NoTask
       /\ done' = Settled(t, MissStatus(t), NoDoc, <<>>, FirstId(t))
       /\ microQ' = Append(mq, Job("pq", NoTask))
  ELSE /\ cur' = IF t.op \in {"insert", "where"} THEN t
                 ELSE [t EXCEPT !.path = IndexGet(store, FirstId(t))]
       /\ done' = done
       /\ microQ' = mq

\* enqueue: push, emit 'enqueue'; onEnqueue starts processQueue when the
\* queue is not processing
Enqueue(t, mq) ==
  IF isProcessing
  THEN /\ queue' = Append(queue, t)
       /\ UNCHANGED <<isProcessing, cur, done>>
       /\ microQ' = mq
  ELSE /\ queue' = queue
       /\ isProcessing' = TRUE
       /\ Begin(t, mq)

\* processQueue after `await item.callback()`: emit 'processed', then the
\* next item, or isProcessing = false and 'idle'
Dispatch ==
  /\ microQ # <<>>
  /\ Head(microQ).kind = "pq"
  /\ IF queue = <<>>
     THEN /\ isProcessing' = FALSE
          /\ microQ' = Tail(microQ)
          /\ UNCHANGED <<queue, cur, done>>
     ELSE /\ queue' = Tail(queue)
          /\ Begin(Head(queue), Tail(microQ))
          /\ UNCHANGED isProcessing
  /\ UNCHANGED <<id, fileSizes, store, disk, indexFile, idx, clock, calls,
                 insDocs, insDone, touched, batch>>
  /\ UNCHANGED <<up, prev, wheres, aq>>

----------------------------------------------------------------------------
(* Client calls: the part of each method that runs before it returns its   *)
(* promise.                                                                *)

\* insert up to `await this.findFileForInsertion(...)`: the counter, then
\* findFileForInsertion, which returns the first fitting entry of
\* fileSizes with the size reserved in it, or registers a new path (named
\* by the clock, which may not have advanced since the last one) and puts
\* it in the index with oversize = true
CallInsert(data) ==
  /\ up
  /\ calls < MaxCalls
  /\ calls' = calls + 1
  /\ id' = NextId(id)
  /\ insDocs' = Append(insDocs, data)
  /\ batch' = (batch /\ insDone = {})
  /\ LET dataSize == DocSize(data)
         k == FirstFit(fileSizes, dataSize)
     IN IF k # 0
        THEN /\ fileSizes' = [fileSizes EXCEPT ![k].size = @ + dataSize]
             /\ microQ' = Append(microQ,
                  Job("cont", Task("insert", id', data, fileSizes[k].key, <<>>,
                                   Len(insDocs'), FALSE)))
             /\ UNCHANGED <<store, idx, clock>>
        ELSE \E ts \in {clock, clock + 1} \ {0} :
             /\ clock' = ts
             /\ fileSizes' = SetSize(fileSizes, FullPath(ts), dataSize)
             /\ store' = IndexInsert(store, id', FullPath(ts), TRUE)
             /\ idx' = EnqueueSave(idx, store')
             /\ microQ' = Append(microQ,
                  Job("find", Task("insert", id', data, FullPath(ts), <<>>,
                                   Len(insDocs'), FALSE)))
  /\ UNCHANGED <<disk, indexFile, queue, isProcessing, cur, done, insDone, touched>>
  /\ UNCHANGED <<up, prev, wheres, aq>>

\* findFileForInsertion after `await this.index.insert(...)`: it returns,
\* and the continuation of insert becomes due
FindReturns ==
  /\ microQ # <<>>
  /\ Head(microQ).kind = "find"
  /\ microQ' = Append(Tail(microQ), Job("cont", Head(microQ).task))
  /\ UNCHANGED <<id, fileSizes, store, disk, indexFile, idx, queue, isProcessing,
                 cur, clock, calls, done, insDocs, insDone, touched, batch>>
  /\ UNCHANGED <<up, prev, wheres, aq>>

\* insert after its await: this.queue.enqueue(task)
InsertEnqueues ==
  /\ microQ # <<>>
  /\ Head(microQ).kind = "cont"
  /\ Enqueue(Head(microQ).task, Tail(microQ))
  /\ UNCHANGED <<id, fileSizes, store, disk, indexFile, idx, clock, calls,
                 insDocs, insDone, touched, batch>>
  /\ UNCHANGED <<up, prev, wheres, aq>>

\* get, getMany, update, delete: new Promise runs its executor at once,
\* which enqueues the task
CallOther(t) ==
  /\ up
  /\ calls < MaxCalls
  /\ calls' = calls + 1
  /\ batch' = FALSE
  /\ touched' = IF t.op \in {"update", "delete"} THEN touched \cup {t.id} ELSE touched
  /\ Enqueue(t, microQ)
  /\ UNCHANGED <<id, fileSizes, store, disk, indexFile, idx, clock, insDocs, insDone>>
  /\ UNCHANGED <<up, prev, wheres, aq>>

CallGet(i) ==
  CallOther(Task("get", i, NoDoc, NoPath, <<>>, 0, i \in insDone /\ i \notin touched))

CallGetMany(ids) == CallOther(Task("getMany", 0, NoDoc, NoPath, ids, 0, FALSE))

\* history: an update of id i has been called and its task has not returned
PendingUpdate(i) ==
  \/ cur.op = "update" /\ cur.id = i
  \/ \E k \in 1..Len(queue) : queue[k].op = "update" /\ queue[k].id = i

CallUpdate(i, data) ==
  CallOther(Task("update", i, data, NoPath, <<>>, 0, PendingUpdate(i)))

CallDelete(i) == CallOther(Task("delete", i, NoDoc, NoPath, <<>>, 0, FALSE))

----------------------------------------------------------------------------
(* Tasks: the step at which the running task's file I/O completes.  The    *)
(* task settles its promise and returns, and processQueue's continuation   *)
(* becomes due.                                                            *)

TaskReturns ==
  /\ cur' = NoTask
  /\ microQ' = <<Job("pq", NoTask)>>

\* the task of insert
InsertIO ==
  /\ microQ = <<>>
  /\ cur.op = "insert"
  /\ LET newData == WithId(cur.data, cur.id)
         jsonData == Append(Without(ReadJsonFile(disk, cur.path), cur.id), newData)
     IN /\ disk' = WriteFile(disk, cur.path, jsonData)
        /\ store' = IndexInsert(store, cur.id, cur.path, FALSE)
        /\ idx' = EnqueueSave(idx, store')
        /\ fileSizes' = SetSize(fileSizes, Basename(cur.path), ArraySize(jsonData))
        /\ done' = Settled(cur, "ok", newData, <<>>, 0)
  /\ insDone' = insDone \cup {cur.id}
  /\ TaskReturns
  /\ UNCHANGED <<id, indexFile, queue, isProcessing, clock, calls, insDocs, touched, batch>>
  /\ UNCHANGED <<up, prev, wheres, aq>>

\* the task of get: getDocument has the shard's array
GetIO ==
  /\ microQ = <<>>
  /\ cur.op = "get"
  /\ done' = Settled(cur, "ok", Find(ReadJsonFile(disk, cur.path), cur.id), <<>>, 0)
  /\ TaskReturns
  /\ UNCHANGED <<id, fileSizes, store, disk, indexFile, idx, queue, isProcessing,
                 clock, calls, insDocs, insDone, touched, batch>>
  /\ UNCHANGED <<up, prev, wheres, aq>>

\* the task of getMany: getDocument of one id has the shard's array; the
\* loop of getManyDocuments pushes the find and resolves the next id
GetManyIO ==
  /\ microQ = <<>>
  /\ cur.op = "getMany"
  /\ LET k == Len(cur.acc) + 1
         acc == Append(cur.acc, Find(ReadJsonFile(disk, cur.path), cur.ids[k]))
     IN IF k = Len(cur.ids)
        THEN /\ done' = Settled(cur, "ok", NoDoc, acc, 0)
             /\ TaskReturns
        ELSE IF IndexGet(store, cur.ids[k + 1]) = NoPath
        THEN /\ done' = Settled(cur, "NotFound", NoDoc, <<>>, cur.ids[k + 1])
             /\ TaskReturns
        ELSE /\ cur' = [cur EXCEPT !.acc = acc, !.path = IndexGet(store, cur.ids[k + 1])]
             /\ UNCHANGED <<done, microQ>>
  /\ UNCHANGED <<id, fileSizes, store, disk, indexFile, idx, queue, isProcessing,
                 clock, calls, insDocs, insDone, touched, batch>>
  /\ UNCHANGED <<up, prev, wheres, aq>>

\* the task of update
UpdateIO ==
  /\ microQ = <<>>
  /\ cur.op = "update"
  /\ LET updatedData == MapUpdate(ReadJsonFile(disk, cur.path), cur.id, cur.data)
     IN /\ disk' = WriteFile(disk, cur.path, updatedData)
        /\ fileSizes' = SetSize(fileSizes, Basename(cur.path), ArraySize(updatedData))
        /\ done' = Settled(cur, "ok", Find(updatedData, cur.id), <<>>, 0)
  /\ TaskReturns
  /\ UNCHANGED <<id, store, indexFile, idx, queue, isProcessing, clock, calls,
                 insDocs, insDone, touched, batch>>
  /\ UNCHANGED <<up, prev, wheres, aq>>

\* the task of delete; `size === 0` decides whether the shard is removed.
\* index.delete throws for an id without a key, which rejects the call
\* after the write.
DeleteIO ==
  /\ microQ = <<>>
  /\ cur.op = "delete"
  /\ LET jsonData == ReadJsonFile(disk, cur.path)
         updatedData == Without(jsonData, cur.id)
         itemToDelete == Find(jsonData, cur.id)
         size == ArraySize(updatedData)
     IN IF size = 0
        THEN IF GetKey(store, cur.id) = 0
             THEN /\ disk' = WriteFile(disk, cur.path, updatedData)
                  /\ done' = Settled(cur, "Error", NoDoc, <<>>, cur.id)
                  /\ UNCHANGED <<store, idx, fileSizes>>
             ELSE /\ store' = IndexDelete(store, cur.id)
                  /\ idx' = EnqueueSave(idx, store')
                  /\ disk' = Unlink(WriteFile(disk, cur.path, updatedData), cur.path)
                  /\ fileSizes' = DelSize(fileSizes, Basename(cur.path))
                  /\ done' = Settled(cur, "ok", itemToDelete, <<>>, 0)
        ELSE /\ disk' = WriteFile(disk, cur.path, updatedData)
             /\ fileSizes' = SetSize(fileSizes, Basename(cur.path), size)
             /\ done' = Settled(cur, "ok", itemToDelete, <<>>, 0)
             /\ UNCHANGED <<store, idx>>
  /\ TaskReturns
  /\ UNCHANGED <<id, indexFile, queue, isProcessing, clock, calls, insDocs,
                 insDone, touched, batch>>
  /\ UNCHANGED <<up, prev, wheres, aq>>

\* the index's saveToFile completes its write; its queue takes the next
\* save, which serializes the store as it is now, or goes idle
IndexSaveIO ==
  /\ microQ = <<>>
  /\ idx.isProcessing
  /\ indexFile' = idx.snap
  /\ idx' = IF idx.pending > 0
            THEN [pending |-> idx.pending - 1, isProcessing |-> TRUE, snap |-> store]
            ELSE [pending |-> 0, isProcessing |-> FALSE, snap |-> NoSnap]
  /\ UNCHANGED <<id, fileSizes, store, disk, queue, isProcessing, cur, microQ,
                 clock, calls, done, insDocs, insDone, touched, batch>>
  /\ UNCHANGED <<up, prev, wheres, aq>>

Next ==
  \/ \E data \in Docs : CallInsert(data)
  \/ \E i \in Keys : CallGet(i)
  \/ \E ids \in IdLists : CallGetMany(ids)
  \/ \E i \in Keys, data \in Patches : CallUpdate(i, data)
  \/ \E i \in Keys : CallDelete(i)
  \/ FindReturns
  \/ InsertEnqueues
  \/ Dispatch
  \/ InsertIO
  \/ GetIO
  \/ GetManyIO
  \/ UpdateIO
  \/ DeleteIO
  \/ IndexSaveIO

Spec == Init /\ [][Next]_vars

----------------------------------------------------------------------------
(* Vocabulary of the properties *)

\* nothing is queued, running or due
Quiescent == microQ = <<>> /\ queue = <<>> /\ cur = NoTask /\ ~isProcessing

\* what get(i) settles with when it runs alone on index st and files d
GetOutcome(st, d, i) ==
  IF IndexGet(st, i) = NoPath
  THEN [status |-> "NotFound", value |-> NoDoc]
  ELSE [status |-> "ok", value |-> Find(ReadJsonFile(d, IndexGet(st, i)), i)]

\* every insert task that is due, queued or running satisfies P
AllInsertTasks(P(_)) ==
  /\ \A k \in 1..Len(microQ) : microQ[k].kind \in {"find", "cont"} => P(microQ[k].task)
  /\ \A k \in 1..Len(queue) : queue[k].op = "insert" => P(queue[k])
  /\ cur.op = "insert" => P(cur)

\* the ids of the records of all files
StoredIds == UNION {{disk[p][k].id : k \in 1..Len(disk[p])} : p \in DOMAIN disk}

RECURSIVE CountDocs(_, _)
\* the number of records in the files P of d
CountDocs(d, P) ==
  IF P = {} THEN 0
  ELSE LET p == CHOOSE q \in P : TRUE IN Len(d[p]) + CountDocs(d, P \ {p})

\* the document the running update or delete task finds in its shard
Before == Find(ReadJsonFile(disk, cur.path), cur.id)

\* patch merged onto doc, the id kept
Merged(doc, patch) ==
  [f \in (DOMAIN doc) \cup (DOMAIN patch) |->
     IF f = "id" THEN doc.id ELSE IF f \in DOMAIN patch THEN patch[f] ELSE doc[f]]

\* inserts of a 7-byte document, and updates
NextUpdate ==
  \/ CallInsert([a |-> 1])
  \/ \E i \in Keys, data \in Patches : CallUpdate(i, data)
  \/ FindReturns
  \/ InsertEnqueues
  \/ Dispatch
  \/ InsertIO
  \/ UpdateIO
  \/ IndexSaveIO

SpecUpdate == Init /\ [][NextUpdate]_vars

----------------------------------------------------------------------------
(* The end of the process and a new instance over the same directory *)

\* instances ended in one behaviour
MaxExits == 1

RECURSIVE Ascending(_)
\* the numbers of S in ascending order
Ascending(S) ==
  IF S = {} THEN <<>>
  ELSE LET m == CHOOSE x \in S : \A y \in S : x <= y
       IN <<m>> \o Ascending(S \ {m})

\* readdir of the collection's directory without index.json: the shard
\* files `${timestamp}.json` in name order; files written under a basename
\* are in the working directory and are not listed
DirFiles(d) ==
  LET names == Ascending({p.ts : p \in {q \in DOMAIN d : q.loc = "dir"}})
  IN [k \in 1..Len(names) |-> FullPath(names[k])]

\* HashMap.loadFromFile with any error caught: the store is empty
LoadStoreEmpty(file) == EmptyStore

\* HashMap.loadFromFile: the parsed file is the store; without currentId the
\* store gets the highest end of its keys + 1; a file that does not parse
\* is caught like a missing one and the store is empty
LoadStore(file) ==
  IF file = Unparsable THEN EmptyStore
  ELSE IF file.currentId = 0
       THEN [file EXCEPT !.currentId = MaxEnd(file.ranges) + 1]
       ELSE file

\* the index file after HashMap.loadFromFile: its catch block writes '{}'
\* over a file that did not parse
FileAfterLoad(file) == IF file = Unparsable THEN EmptyStore ELSE file

\* the size table of a constructor that returns before the loop over the
\* shard files has run
StatSizesLater(d) == <<>>

\* JsonCollectionManager.loadFromFile, the loop over readdirSync:
\* fileSizes[`${directoryPath}/${file}`] = statSync(filePath).size
StatSizes(d) ==
  [k \in 1..Len(DirFiles(d)) |->
     [key |-> DirFiles(d)[k], size |-> ArraySize(d[DirFiles(d)[k]])]]

\* the process ends.  What is in memory is gone, and the history of calls
\* starts again; a write of index.json that is in flight leaves the old
\* content, the new content, or a cut-off file
Exit ==
  /\ up
  /\ prev.n < MaxExits
  /\ up' = FALSE
  /\ prev' = [store |-> store, clean |-> Quiescent /\ ~idx.isProcessing, n |-> prev.n + 1,
               id |-> id]
  /\ \E file \in (IF idx.isProcessing THEN {indexFile, idx.snap, Unparsable} ELSE {indexFile}) :
       indexFile' = file
  /\ id' = 0
  /\ fileSizes' = <<>>
  /\ store' = EmptyStore
  /\ idx' = [pending |-> 0, isProcessing |-> FALSE, snap |-> NoSnap]
  /\ queue' = <<>>
  /\ isProcessing' = FALSE
  /\ cur' = NoTask
  /\ microQ' = <<>>
  /\ done' = Settled(NoTask, "none", NoDoc, <<>>, 0)
  /\ insDocs' = <<>>
  /\ insDone' = {}
  /\ touched' = {}
  /\ batch' = TRUE
  /\ UNCHANGED <<disk, clock, calls, wheres, aq>>

\* new JsonCollectionManager(directoryPath) over the directory as it is:
\* new HashMap(...) loads the index; loadFromFile then reads index.json,
\* takes this.id from its currentId and the sizes of the shard files
Open ==
  /\ ~up
  /\ up' = TRUE
  /\ store' = LoadStore(indexFile)
  /\ indexFile' = FileAfterLoad(indexFile)
  /\ id' = indexFile'.currentId
  /\ fileSizes' = StatSizes(disk)
  /\ UNCHANGED <<disk, idx, queue, isProcessing, cur, microQ, clock, calls, done,
                 insDocs, insDone, touched, batch, prev, wheres, aq>>

NextReopen ==
  \/ \E data \in Docs : CallInsert(data)
  \/ \E i \in Keys : CallGet(i)
  \/ \E i \in Keys : CallDelete(i)
  \/ FindReturns
  \/ InsertEnqueues
  \/ Dispatch
  \/ InsertIO
  \/ GetIO
  \/ DeleteIO
  \/ IndexSaveIO
  \/ Exit
  \/ Open

SpecReopen == Init /\ [][NextReopen]_vars

\* instances that end and are constructed again, with inserts of a 7-byte
\* document, gets and deletes
NextStartup ==
  \/ CallInsert([a |-> 1])
  \/ \E i \in Keys : CallGet(i)
  \/ \E i \in Keys : CallDelete(i)
  \/ FindReturns
  \/ InsertEnqueues
  \/ Dispatch
  \/ InsertIO
  \/ GetIO
  \/ DeleteIO
  \/ IndexSaveIO
  \/ Exit
  \/ Open

SpecStartup == Init /\ [][NextStartup]_vars

\* a directory that holds a shard file whose documents have all been
\* deleted ("[]": delete leaves the file) and no index.json that parses
\* (the file is missing, or was cut off by the end of a process)
LostIndexDir == (FullPath(1) :> <<>>)

\* the state after `new JsonCollectionManager(directoryPath)` over
\* LostIndexDir: HashMap.loadFromFile catches the error, leaves the store
\* empty and writes '{}'; loadFromFile finds no currentId in it and takes
\* the size of the shard file
InitLost ==
  /\ id = FileAfterLoad(Unparsable).currentId
  /\ fileSizes = StatSizes(LostIndexDir)
  /\ store = LoadStore(Unparsable)
  /\ disk = LostIndexDir
  /\ indexFile = FileAfterLoad(Unparsable)
  /\ idx = [pending |-> 0, isProcessing |-> FALSE, snap |-> NoSnap]
  /\ queue = <<>>
  /\ isProcessing = FALSE
  /\ cur = NoTask
  /\ microQ = <<>>
  /\ clock = 1
  /\ calls = 0
  /\ done = Settled(NoTask, "none", NoDoc, <<>>, 0)
  /\ insDocs = <<>>
  /\ insDone = {}
  /\ touched = {}
  /\ batch = TRUE
  /\ up = TRUE
  /\ prev = NoPrev
  /\ wheres = 0
  /\ aq = NewQueue

SpecLost == InitLost /\ [][NextReopen]_vars

----------------------------------------------------------------------------
(* AsyncQueue on its own: tasks that take any time and resolve or reject,   *)
(* with or without a listener for 'error'.  Tasks are numbered in the      *)
(* order of enqueue.                                                       *)

\* tasks enqueued in one behaviour
MaxTasks == 3

\* taking the newest item instead of the oldest
Pop(q) == [item |-> q[Len(q)], rest |-> SubSeq(q, 1, Len(q) - 1)]

\* this.queue.shift()
Shift(q) == [item |-> Head(q), rest |-> Tail(q)]

\* an entry of the log
Event(ev, n) == [ev |-> ev, task |-> n]

\* emit 'processed' after every task, rejected or not
AfterAwaitAlways(q) == "processed"

\* what follows `await item.callback()` in processQueue: emit 'processed'
\* when the promise resolved, the catch block when it rejected
AfterAwait(q) == IF q.running \in q.fails THEN "error" ELSE "processed"

\* onEnqueue starting processQueue whatever isProcessing is
ShouldStartAlways(q) == q.queue # <<>>

\* onEnqueue: if (!this.isProcessing && this.queue.length > 0) processQueue()
ShouldStart(q) == ~q.isProcessing /\ q.queue # <<>>

\* nothing is queued, no task runs and no continuation of processQueue is due
AtRest(q) == q.queue = <<>> /\ q.running = 0 /\ q.due = "none"

\* the head of the loop of processQueue, the queue not empty:
\* item = this.queue.shift(); item.callback() starts the task
StartNext(q) ==
  [q EXCEPT !.queue = Shift(q.queue).rest,
            !.running = Shift(q.queue).item,
            !.started = Append(@, Shift(q.queue).item),
            !.log = Append(@, Event("start", Shift(q.queue).item))]

\* enqueue(callback): push, emit 'enqueue'; onEnqueue calls processQueue
\* when the queue is not processing, which sets isProcessing and starts the
\* first item.  fail: the task will reject
QEnqueue(fail) ==
  /\ aq.enqueued < MaxTasks
  /\ LET n == aq.enqueued + 1
         pushed == [aq EXCEPT !.enqueued = n,
                              !.queue = Append(@, n),
                              !.fails = IF fail THEN @ \cup {n} ELSE @,
                              !.periods = IF AtRest(aq) THEN @ + 1 ELSE @]
     IN aq' = IF ShouldStart(pushed)
              THEN StartNext([pushed EXCEPT !.isProcessing = TRUE])
              ELSE pushed
  /\ UNCHANGED <<id, fileSizes, store, disk, indexFile, idx, queue, isProcessing, cur,
                 microQ, clock, calls, done, insDocs, insDone, touched, batch,
                 up, prev, wheres>>

\* queue.on('error', listener)
QListen ==
  /\ ~aq.listener
  /\ aq' = [aq EXCEPT !.listener = TRUE]
  /\ UNCHANGED <<id, fileSizes, store, disk, indexFile, idx, queue, isProcessing, cur,
                 microQ, clock, calls, done, insDocs, insDone, touched, batch,
                 up, prev, wheres>>

\* the promise of the running task settles; the continuation of
\* `await item.callback()` becomes due: emit 'processed', or the catch
\* block's emit 'error'
QSettle ==
  /\ aq.running # 0
  /\ aq' = [aq EXCEPT !.running = 0,
                      !.finished = Append(@, aq.running),
                      !.log = Append(@, Event(IF aq.running \in aq.fails
                                                THEN "rejected" ELSE "resolved",
                                              aq.running)),
                      !.due = AfterAwait(aq)]
  /\ UNCHANGED <<id, fileSizes, store, disk, indexFile, idx, queue, isProcessing, cur,
                 microQ, clock, calls, done, insDocs, insDone, touched, batch,
                 up, prev, wheres>>

\* processQueue goes on after the await.  emit('error') without a listener
\* throws the error, out of the catch block and of processQueue, which
\* leaves isProcessing set; otherwise the loop takes the next item, or
\* ends: isProcessing = false, emit 'idle'
QContinue ==
  /\ aq.due # "none"
  /\ aq' = IF aq.due = "error" /\ ~aq.listener
           THEN [aq EXCEPT !.due = "none"]
           ELSE LET emitted == [aq EXCEPT !.due = "none",
                                          !.log = Append(@, Event(aq.due,
                                                   aq.finished[Len(aq.finished)]))]
                IN IF aq.queue # <<>>
                   THEN StartNext(emitted)
                   ELSE [emitted EXCEPT !.isProcessing = FALSE, !.idles = @ + 1,
                                        !.log = Append(@, Event("idle", 0))]
  /\ UNCHANGED <<id, fileSizes, store, disk, indexFile, idx, queue, isProcessing, cur,
                 microQ, clock, calls, done, insDocs, insDone, touched, batch,
                 up, prev, wheres>>

NextQueue ==
  \/ \E fail \in BOOLEAN : QEnqueue(fail)
  \/ QListen
  \/ QSettle
  \/ QContinue

SpecQueue == Init /\ [][NextQueue]_vars

\* every task settles, and the continuation of an await that has settled
\* runs: the event loop leaves no settled promise unhandled
FairSpecQueue == SpecQueue /\ WF_vars(QSettle) /\ WF_vars(QContinue)

----------------------------------------------------------------------------
(* where *)

\* calls of where in one behaviour
MaxWheres == 1

\* the filter functions where is called with: every item, and the items
\* with an id above 1
Filters == {"all", "late"}
\* filter(item)
Matches(f, item) == f = "all" \/ item.id > 1

\* limit omitted: undefined
NoLimit == 0 - 1
\* the values of limit, offset and order where is called with
Limits == {NoLimit, 0, 1, 2}
Offsets == {0, 1}
Orders == {"asc", "desc"}

\* `limit &&`: undefined and 0 are falsy
HasLimit(limit) == limit # NoLimit /\ limit # 0

\* Array.prototype.reverse
Reverse(arr) == [k \in 1..Len(arr) |-> arr[Len(arr) + 1 - k]]

\* the task of where, with its options
WhereTask(f, limit, offset, order) ==
  [op |-> "where", id |-> 0, data |-> NoDoc, path |-> NoPath, ids |-> <<>>,
   acc |-> <<>>, n |-> 0, known |-> FALSE,
   filter |-> f, limit |-> limit, offset |-> offset, order |-> order]

\* the files where reads, in its order: readdir, reversed for 'desc'
\* (index.json is skipped)
WhereFiles(d, order) == IF order = "desc" THEN Reverse(DirFiles(d)) ELSE DirFiles(d)

\* jsonData filtered, in the file's order whatever the order asked for
FileItemsInFileOrder(d, p, o) ==
  LET jsonData == ReadJsonFile(d, p)
  IN SelectSeq(jsonData, LAMBDA item : Matches(o.filter, item))

\* jsonData (reversed for 'desc') filtered
FileItems(d, p, o) ==
  LET jsonData == ReadJsonFile(d, p)
  IN SelectSeq(IF o.order = "desc" THEN Reverse(jsonData) ELSE jsonData,
               LAMBDA item : Matches(o.filter, item))

RECURSIVE Scan(_, _, _, _, _)
\* the loop of where over the remaining fileNames
Scan(d, fileNames, o, allItems, count) ==
  IF fileNames = <<>> THEN allItems
  ELSE IF HasLimit(o.limit) /\ count >= o.limit + o.offset THEN allItems
  ELSE LET items == FileItems(d, Head(fileNames), o)
       IN IF HasLimit(o.limit) /\ count + Len(items) > o.limit
          THEN allItems \o SubSeq(items, 1, o.limit - count)
          ELSE Scan(d, Tail(fileNames), o, allItems \o items, count + Len(items))

\* where({filter, limit, offset, order}): the executor enqueues the task
CallWhere(f, limit, offset, order) ==
  /\ up
  /\ wheres < MaxWheres
  /\ wheres' = wheres + 1
  /\ batch' = FALSE
  /\ Enqueue(WhereTask(f, limit, offset, order), microQ)
  /\ UNCHANGED <<id, fileSizes, store, disk, indexFile, idx, clock, calls, insDocs,
                 insDone, touched, up, prev, aq>>

\* the task of where: readdir and the reads of the files, which no other
\* task changes meanwhile
WhereIO ==
  /\ microQ = <<>>
  /\ cur.op = "where"
  /\ done' = Settled(cur, "ok", NoDoc,
                     Scan(disk, WhereFiles(disk, cur.order), cur, <<>>, 0), 0)
  /\ TaskReturns
  /\ UNCHANGED <<id, fileSizes, store, disk, indexFile, idx, queue, isProcessing,
                 clock, calls, insDocs, insDone, touched, batch, up, prev, wheres, aq>>

NextWhere ==
  \/ \E data \in Docs : CallInsert(data)
  \/ \E i \in Keys : CallDelete(i)
  \/ \E f \in Filters, limit \in Limits, offset \in Offsets, order \in Orders :
       CallWhere(f, limit, offset, order)
  \/ FindReturns
  \/ InsertEnqueues
  \/ Dispatch
  \/ InsertIO
  \/ DeleteIO
  \/ WhereIO
  \/ IndexSaveIO

SpecWhere == Init /\ [][NextWhere]_vars

\* inserts of a 7-byte document (two fit a shard), and where called without
\* limit and offset once the inserts called before it have resolved
NextOrder ==
  \/ CallInsert([a |-> 1])
  \/ \E f \in Filters, order \in Orders : Quiescent /\ CallWhere(f, NoLimit, 0, order)
  \/ FindReturns
  \/ InsertEnqueues
  \/ Dispatch
  \/ InsertIO
  \/ WhereIO
  \/ IndexSaveIO

SpecOrder == Init /\ [][NextOrder]_vars

\* the records of all shard files that satisfy the filter
LiveMatches(d, f) ==
  UNION {{d[p][k] : k \in {j \in 1..Len(d[p]) : Matches(f, d[p][j])}} : p \in DOMAIN d}

RECURSIVE AllMatches(_, _, _)
\* the matches of the files of the directory in scan order
AllMatches(d, fileNames, o) ==
  IF fileNames = <<>> THEN <<>>
  ELSE FileItems(d, Head(fileNames), o) \o AllMatches(d, Tail(fileNames), o)

----------------------------------------------------------------------------
(* HashMap on its own: insert, update and delete called with any id, as    *)
(* its own tests call them.  `store` and `idx` are the map and its queue   *)
(* of saves; `done` records the call made last.                            *)

\* the values the index is called with: shard paths
IndexPaths == {FullPath(1), FullPath(2)}

\* HashMap.update, for an id that has a key (it throws otherwise):
\* this.store[key] = value
IndexUpdate(st, i, value) ==
  [st EXCEPT !.ranges[GetKey(st, i)].value = value]

\* a call of the index that has returned or thrown: its arguments, its
\* number, and the ids inserted and not deleted since
IndexDone(op, i, value, oversize, status) ==
  [op |-> op, id |-> i, path |-> value, oversize |-> oversize, status |-> status,
   n |-> calls + 1,
   has |-> LET had == IF done.n = 0 THEN {} ELSE done.has
           IN IF status # "ok" THEN had
              ELSE IF op = "index.delete" THEN had \ {i}
              ELSE IF op = "index.insert" THEN had \cup {i}
              ELSE had]

\* index.insert(id, value, oversize)
IdxInsert(i, value, oversize) ==
  /\ calls < MaxCalls
  /\ calls' = calls + 1
  /\ store' = IndexInsert(store, i, value, oversize)
  /\ idx' = EnqueueSave(idx, store')
  /\ done' = IndexDone("index.insert", i, value, oversize, "ok")
  /\ UNCHANGED <<id, fileSizes, disk, indexFile, queue, isProcessing, cur, microQ,
                 clock, insDocs, insDone, touched, batch, up, prev, wheres, aq>>

\* index.update(id, value)
IdxUpdate(i, value) ==
  /\ calls < MaxCalls
  /\ calls' = calls + 1
  /\ IF GetKey(store, i) = 0
     THEN /\ done' = IndexDone("index.update", i, value, FALSE, "Error")
          /\ UNCHANGED <<store, idx>>
     ELSE /\ store' = IndexUpdate(store, i, value)
          /\ idx' = EnqueueSave(idx, store')
          /\ done' = IndexDone("index.update", i, value, FALSE, "ok")
  /\ UNCHANGED <<id, fileSizes, disk, indexFile, queue, isProcessing, cur, microQ,
                 clock, insDocs, insDone, touched, batch, up, prev, wheres, aq>>

\* index.delete(id)
IdxDelete(i) ==
  /\ calls < MaxCalls
  /\ calls' = calls + 1
  /\ IF GetKey(store, i) = 0
     THEN /\ done' = IndexDone("index.delete", i, NoPath, FALSE, "Error")
          /\ UNCHANGED <<store, idx>>
     ELSE /\ store' = IndexDelete(store, i)
          /\ idx' = EnqueueSave(idx, store')
          /\ done' = IndexDone("index.delete", i, NoPath, FALSE, "ok")
  /\ UNCHANGED <<id, fileSizes, disk, indexFile, queue, isProcessing, cur, microQ,
                 clock, insDocs, insDone, touched, batch, up, prev, wheres, aq>>

NextIndex ==
  \/ \E i \in Keys, value \in IndexPaths, oversize \in BOOLEAN : IdxInsert(i, value, oversize)
  \/ \E i \in Keys, value \in IndexPaths : IdxUpdate(i, value)
  \/ \E i \in Keys : IdxDelete(i)
  \/ IndexSaveIO

SpecIndex == Init /\ [][NextIndex]_vars

----------------------------------------------------------------------------
(* Failing writes of shard files *)

\* fs.writeFile of the running insert, update or delete task rejects: the
\* task's catch block rejects the call's promise, and the task returns.
\* What the call did before the write stays as it is.
WriteFails ==
  /\ microQ = <<>>
  /\ cur.op \in {"insert", "update", "delete"}
  /\ done' = Settled(cur, "IOError", NoDoc, <<>>, 0)
  /\ TaskReturns
  /\ UNCHANGED <<id, fileSizes, store, disk, indexFile, idx, queue, isProcessing,
                 clock, calls, insDocs, insDone, touched, batch, up, prev, wheres, aq>>

NextIO ==
  \/ Next
  \/ WriteFails

SpecIO == Init /\ [][NextIO]_vars

----------------------------------------------------------------------------
(* A new instance when statSync of a shard file fails *)

\* the error codes statSync fails with: the file is gone since readdirSync,
\* or may not be accessed
StatErrors == {"ENOENT", "EACCES"}

\* new JsonCollectionManager(directoryPath) when statSync throws at the
\* k-th shard file: the sizes of the files before it are in fileSizes, the
\* loop is left, and the catch block of loadFromFile writes '{}' over
\* index.json for ENOENT and throws any other error out of the constructor
OpenStatFails(k, code) ==
  /\ ~up
  /\ k \in 1..Len(DirFiles(disk))
  /\ IF code = "ENOENT"
     THEN /\ up' = TRUE
          /\ store' = LoadStore(indexFile)
          /\ id' = FileAfterLoad(indexFile).currentId
          /\ fileSizes' = SubSeq(StatSizes(disk), 1, k - 1)
          /\ indexFile' = EmptyStore
     ELSE /\ indexFile' = FileAfterLoad(indexFile)
          /\ UNCHANGED <<up, store, id, fileSizes>>
  /\ UNCHANGED <<disk, idx, queue, isProcessing, cur, microQ, clock, calls, done,
                 insDocs, insDone, touched, batch, prev, wheres, aq>>

NextStat ==
  \/ NextReopen
  \/ \E k \in 1..MaxCalls, code \in StatErrors : OpenStatFails(k, code)

SpecStat == Init /\ [][NextStat]_vars

----------------------------------------------------------------------------
(* Properties *)

\* C1: on a fresh store the k-th call of insert is assigned id k, whether
\* or not earlier inserts have completed: the ids of N inserts are 1..N in
\* call order, and each insert resolves with its own id.
C1_IdsInCallOrder ==
  /\ id = Len(insDocs)
  /\ AllInsertTasks(LAMBDA t : t.id = t.n)
  /\ done.op = "insert" => done.value.id = done.n

\* two inserts were in flight together and the second has resolved
C1_Witness == done.op = "insert" /\ done.n = 2 /\ batch /\ ~Quiescent

\* C2: a get(i) called after insert(doc) resolved with id i, with no update
\* or delete of i, resolves with doc carrying id i.
C2_GetAfterInsert ==
  (done.op = "get" /\ done.known /\ done.id \notin touched)
    => (done.status = "ok" /\ done.value = WithId(insDocs[done.id], done.id))

\* C3: after K inserts issued before any of them resolved have all
\* completed, the files hold K records with distinct ids and get(i)
\* returns the i-th document for every i in 1..K.
C3_ConcurrentInserts ==
  (batch /\ Quiescent /\ insDone = 1..Len(insDocs))
    => /\ CountDocs(disk, DOMAIN disk) = Len(insDocs)
       /\ Cardinality(StoredIds) = Len(insDocs)
       /\ \A i \in 1..Len(insDocs) :
            GetOutcome(store, disk, i) = [status |-> "ok", value |-> WithId(insDocs[i], i)]

\* C4: when all operations have completed, every id some shard file holds
\* a record of is resolved by the index to a shard whose file holds a
\* record with that id.
C4_IndexShardConsistent ==
  Quiescent =>
    \A i \in StoredIds :
      /\ IndexGet(store, i) # NoPath
      /\ Find(ReadJsonFile(disk, IndexGet(store, i)), i) # Undefined

\* C5: update(id, patch) of a document its shard holds resolves with the
\* shallow merge (fields of patch replaced, the others kept), stores it,
\* and a get(id) that follows returns it.
C5_UpdateMerges ==
  [][(cur.op = "update" /\ cur' = NoTask /\ Before # Undefined)
       => /\ done'.status = "ok"
          /\ done'.value = Merged(Before, cur.data)
          /\ GetOutcome(store', disk', cur.id)
               = [status |-> "ok", value |-> Merged(Before, cur.data)]]_vars

\* C6: update(id, patch) with a patch whose id field differs from id leaves
\* the stored document with its id, and get(id) still returns it.
C6_IdImmutable ==
  [][(/\ cur.op = "update" /\ cur' = NoTask /\ Before # Undefined
      /\ "id" \in DOMAIN cur.data /\ cur.data.id # cur.id)
       => /\ Find(ReadJsonFile(disk', cur.path), cur.id) # Undefined
          /\ GetOutcome(store', disk', cur.id).status = "ok"
          /\ GetOutcome(store', disk', cur.id).value # Undefined]_vars

\* C7: when delete(id) removes the last document of a shard, on completion
\* the shard's file is gone, the index has no entry for id and fileSizes
\* has no entry for the shard.
C7_LastDeleteRemovesShard ==
  [][(/\ cur.op = "delete" /\ cur' = NoTask /\ Before # Undefined
      /\ Without(ReadJsonFile(disk, cur.path), cur.id) = <<>>)
       => /\ cur.path \notin DOMAIN disk'
          /\ IndexGet(store', cur.id) = NoPath
          /\ \A k \in 1..Len(fileSizes') : fileSizes'[k].key.ts # cur.path.ts]_vars

\* C8: get never resolves with undefined, and get of an id that insert
\* never assigned rejects with "No data found for id".
C8_GetNotFound ==
  done.op = "get"
    => /\ done.status = "ok" => done.value # Undefined
       /\ done.id > Len(insDocs) => done.status = "NotFound"

\* C9: getMany(ids) either resolves with one document per requested id, in
\* the order of ids, or rejects with "No data found for id" naming one of
\* the ids; its result never holds undefined.
C9_GetManyAllOrNothing ==
  done.op = "getMany"
    => IF done.status = "ok"
       THEN /\ Len(done.values) = Len(done.ids)
            /\ \A k \in 1..Len(done.values) :
                 done.values[k] # Undefined /\ done.values[k].id = done.ids[k]
       ELSE /\ done.status = "NotFound"
            /\ \E k \in 1..Len(done.ids) : done.ids[k] = done.errId

\* C10: update(id, patch) of an id with no stored document rejects with
\* "No data found for id" and leaves the files, the index and fileSizes as
\* they were.
C10_UpdateOfMissingId ==
  [][(/\ done' # done /\ done'.op = "update"
      /\ (cur.op = "update" => Before = Undefined))
       => /\ done'.status = "NotFound"
          /\ disk' = disk /\ store' = store /\ fileSizes' = fileSizes]_vars

\* C11: with inserts only (documents no larger than maxFileSize each), no
\* shard file is ever larger than maxFileSize: an insert that would push a
\* shard over the bound goes to another shard.
C11_ShardSizeBound ==
  touched = {} => \A p \in DOMAIN disk : ArraySize(disk[p]) <= maxFileSize

\* C12: when an insert, update or delete completes, fileSizes holds, under
\* the key findFileForInsertion reads and returns for the shard (its path),
\* the byte size of the shard's file.
C12_SizeTrackingExact ==
  [][(/\ cur.op \in {"insert", "update", "delete"} /\ cur' = NoTask
      /\ done'.status = "ok" /\ cur.path \in DOMAIN disk')
       => \E k \in 1..Len(fileSizes') :
            /\ fileSizes'[k].key = cur.path
            /\ fileSizes'[k].size = ArraySize(disk'[cur.path])]_vars

\* C13: when an instance ended with all its operations completed and its
\* index flushed, a new instance over the same directory gives, for every
\* id some shard file holds, the get(id) result the ended instance gave.
C13_ReopenRoundTrip ==
  [][(~up /\ up' /\ prev.clean)
       => \A i \in StoredIds :
            GetOutcome(store', disk', i) = GetOutcome(prev.store, disk, i)]_vars

\* a get of the new instance, opened after a clean end, returned a document
C13_Witness ==
  /\ up /\ prev.n = 1 /\ prev.clean
  /\ done.op = "get" /\ done.status = "ok" /\ done.value # Undefined

\* C14: opening over an index file that does not parse fails and leaves the
\* file as it is: no step from such a state changes the file or brings an
\* instance up.
C14_CorruptIndexIsFatal ==
  [][(~up /\ indexFile = Unparsable) => (~up' /\ indexFile' = Unparsable)]_vars

\* C15: the tasks of one queue start in the order of enqueue and finish in
\* the order of enqueue, at most one at a time, and the tasks that wait
\* are the ones not yet started, in order.
C15_QueueFifo ==
  /\ \A k \in 1..Len(aq.started) : aq.started[k] = k
  /\ \A k \in 1..Len(aq.finished) : aq.finished[k] = k
  /\ Len(aq.started) = Len(aq.finished) + (IF aq.running # 0 THEN 1 ELSE 0)
  /\ aq.running # 0 => aq.running = Len(aq.started)
  /\ \A k \in 1..Len(aq.queue) : aq.queue[k] = Len(aq.started) + k

\* the first task has finished, the second runs, and the third was enqueued
\* while an earlier one was running
C15_Witness == aq.finished = <<1>> /\ aq.running = 2 /\ aq.queue = <<3>>

\* C16: a failed task does not stop the queue, with or without a listener
\* for 'error': whenever no task runs and processQueue has nothing left to
\* do, no task is left waiting and the queue is not marked as processing.
C16_FailureDoesNotStopQueue ==
  (aq.running = 0 /\ aq.due = "none") => (aq.queue = <<>> /\ ~aq.isProcessing)

\* C17: 'idle' is emitted once at a time and only when nothing is queued or
\* running, and whenever the queue is at rest it has emitted 'idle' once for
\* each time it went from rest to busy.
C17_IdleOncePerDrain ==
  [][/\ aq'.idles # aq.idles
          => (aq'.idles = aq.idles + 1 /\ aq'.queue = <<>> /\ aq'.running = 0)
     /\ AtRest(aq') => aq'.idles = aq'.periods]_vars

\* C18: where without a limit resolves with exactly the records of the
\* shard files that satisfy the filter, each once.
C18_WhereReturnsAllMatches ==
  [][(cur.op = "where" /\ cur' = NoTask /\ cur.limit = NoLimit)
       => /\ {done'.values[k] : k \in 1..Len(done'.values)} = LiveMatches(disk, cur.filter)
          /\ Len(done'.values) = Cardinality(LiveMatches(disk, cur.filter))]_vars

\* C19: where with a limit L >= 0 never resolves with more than L
\* documents, and with offset 0 it resolves with the first min(L, number of
\* matches) matches in scan order.
C19_WhereLimit ==
  [][(cur.op = "where" /\ cur' = NoTask /\ cur.limit # NoLimit)
       => LET all == AllMatches(disk, WhereFiles(disk, cur.order), cur)
              m == IF Len(all) < cur.limit THEN Len(all) ELSE cur.limit
          IN /\ Len(done'.values) <= cur.limit
             /\ cur.offset = 0 => done'.values = SubSeq(all, 1, m)]_vars

\* C20: after inserts only, where with order 'desc' and a limit >= 1
\* resolves with the matching record of the greatest id first.
C20_WhereDescFirst ==
  [][(/\ cur.op = "where" /\ cur' = NoTask /\ cur.order = "desc" /\ cur.limit >= 1
      /\ touched = {} /\ LiveMatches(disk, cur.filter) # {})
       => /\ done'.values # <<>>
          /\ \A doc \in LiveMatches(disk, cur.filter) : doc.id <= done'.values[1].id]_vars

C22_IndexRoundTrip ==
  [][(done'.n # done.n /\ done'.op \in {"index.insert", "index.update"}
      /\ done'.status = "ok")
       => IndexGet(store', done'.id) = done'.path]_vars

\* C23: index.insert, index.update and index.delete of one id leave what
\* the index resolves every other inserted id to as it was.
C23_IndexFrame ==
  [][(done'.n # done.n
      /\ done'.op \in {"index.insert", "index.update", "index.delete"})
       => \A j \in (IF done.n = 0 THEN {} ELSE done.has) \ {done'.id} :
            IndexGet(store', j) = IndexGet(store, j)]_vars

\* C24: the index resolves to null every id that was never inserted, or
\* was deleted and not inserted since.
C24_IndexGetNull ==
  done.op \in {"index.insert", "index.update", "index.delete"}
    => \A j \in Keys \ done.has : IndexGet(store, j) = NoPath

\* C25: a failed shard write leaves the index and the size table as they
\* were before the call.  In particular, when every operation has settled,
\* no insert has succeeded and no update or delete was called, the index
\* has no entry and the size table no reservation.
C25_FailedWriteLeavesNoTrace ==
  (Quiescent /\ insDone = {} /\ touched = {})
    => (store.ranges = <<>> /\ fileSizes = <<>>)

\* C26: construction over a directory whose index parses completes, leaves
\* index.json as it is, and puts in fileSizes the true sizes of all shard
\* files of the directory but at most one (one whose stat failed).
C26_StatFailureIsLocal ==
  [][(~up /\ indexFile # Unparsable)
       => /\ up'
          /\ indexFile' = indexFile
          /\ Len(fileSizes') >= Len(DirFiles(disk)) - 1
          /\ \A k \in 1..Len(fileSizes') :
               \E j \in 1..Len(DirFiles(disk)) : fileSizes'[k] = StatSizes(disk)[j]]_vars

\* C27: when insert finds no tracked shard with room for the document, the
\* path it synthesizes is none of the paths tracked in fileSizes and none
\* of the files on disk.
C27_NewPathIsFresh ==
  [][(/\ Len(insDocs') = Len(insDocs) + 1
      /\ FirstFit(fileSizes, DocSize(insDocs'[Len(insDocs')])) = 0)
       => /\ \A k \in 1..Len(fileSizes) : fileSizes[k].key # FullPath(clock')
          /\ FullPath(clock') \notin DOMAIN disk]_vars

C29_OneRewritePerBurst ==
  [][(/\ idx.isProcessing
      /\ \/ ~idx'.isProcessing
         \/ idx'.pending = idx.pending - 1)
       => ~idx'.isProcessing]_vars

\* C30: 'processed' is emitted once for each task that has resolved,
\* directly after the task and before anything else happens in the queue,
\* the start of the next task included; it is emitted for no other task.
C30_ProcessedAfterEachTask ==
  /\ \A k \in 1..Len(aq.log) :
       aq.log[k].ev = "processed"
         => (k > 1 /\ aq.log[k - 1] = Event("resolved", aq.log[k].task))
  /\ \A k \in 1..(Len(aq.log) - 1) :
       aq.log[k].ev = "resolved" => aq.log[k + 1] = Event("processed", aq.log[k].task)
  /\ \A j, k \in 1..Len(aq.log) :
       (aq.log[j].ev = "processed" /\ aq.log[j] = aq.log[k]) => j = k
  /\ (aq.log # <<>> /\ aq.log[Len(aq.log)].ev = "resolved") => aq.due = "processed"

\* two bursts: the first task resolved and 'processed' and 'idle' were
\* emitted, then the second task was enqueued, resolved, and its
\* 'processed' was emitted; the third task has started
C30_Witness ==
  /\ Len(aq.log) >= 8
  /\ SubSeq(aq.log, 1, 8) =
       <<Event("start", 1), Event("resolved", 1), Event("processed", 1), Event("idle", 0),
         Event("start", 2), Event("resolved", 2), Event("processed", 2), Event("start", 3)>>

\* C31: the shard findFileForInsertion returns for a document of size c is
\* the first tracked shard with size + c <= maxFileSize, whose tracked size
\* is raised by c in the same step, or a shard that was neither tracked nor
\* on disk, which is tracked with size c from then on.
C31_FirstFitNoOvercommit ==
  [][(Len(insDocs') = Len(insDocs) + 1)
       => LET c == DocSize(insDocs'[Len(insDocs')])
              p == microQ'[Len(microQ')].task.path
          IN \/ \E k \in 1..Len(fileSizes) :
                  /\ fileSizes[k].key = p
                  /\ fileSizes[k].size + c <= maxFileSize
                  /\ \A j \in 1..(k - 1) : fileSizes[j].size + c > maxFileSize
                  /\ fileSizes'[k].size = fileSizes[k].size + c
             \/ /\ \A k \in 1..Len(fileSizes) : fileSizes[k].key # p
                /\ p \notin DOMAIN disk
                /\ \E k \in 1..Len(fileSizes') : fileSizes'[k] = [key |-> p, size |-> c]]_vars

\* C32: at most one task of a queue executes at a time: between the start
\* of a task and the start of a later one the earlier task has settled,
\* and the task that runs is the one started last.
C32_OneTaskAtATime ==
  /\ \A j, k \in 1..Len(aq.log) :
       (j < k /\ aq.log[j].ev = "start" /\ aq.log[k].ev = "start")
         => \E m \in (j + 1)..(k - 1) :
              /\ aq.log[m].ev \in {"resolved", "rejected"}
              /\ aq.log[m].task = aq.log[j].task
  /\ \A j \in 1..Len(aq.log) :
       (/\ aq.log[j].ev = "start"
        /\ \A m \in (j + 1)..Len(aq.log) : aq.log[m].task # aq.log[j].task)
         => aq.running = aq.log[j].task

\* two tasks were enqueued while the first one runs; neither has started
C32_Witness == aq.running = 1 /\ aq.queue = <<2, 3>>

\* C33: when every task settles, every task that is enqueued is started in
\* the end.
C33_EveryTaskRuns ==
  \A n \in 1..MaxTasks : (aq.enqueued >= n) ~> (Len(aq.started) >= n)

\* C34: index.insert(id, shard) for an id that no key covers, with no key
\* ending at or just before id, makes a key for id alone: get(id) is shard
\* and get(id + 1) is null.
C34_NewIntervalHasOneId ==
  [][(/\ calls' = calls + 1
      /\ done'.op = "index.insert"
      /\ GetKey(store, done'.id) = 0
      /\ \A k \in 1..Len(store.ranges) : store.ranges[k].end \notin {done'.id - 1, done'.id})
       => /\ IndexGet(store', done'.id) = done'.path
          /\ IndexGet(store', done'.id + 1) = NoPath]_vars

\* C35: update(id, patch) of a document its shard holds leaves the document
\* in the same shard file, the index as it was, and every other document of
\* every shard file as it was.
C35_UpdateMovesNothing ==
  [][(cur.op = "update" /\ cur' = NoTask /\ Before # Undefined)
       => /\ store' = store
          /\ DOMAIN disk' = DOMAIN disk
          /\ \A p \in DOMAIN disk : p # cur.path => disk'[p] = disk[p]
          /\ Len(disk'[cur.path]) = Len(disk[cur.path])
          /\ \A k \in 1..Len(disk[cur.path]) :
               IF disk[cur.path][k].id = cur.id
               THEN disk'[cur.path][k].id = cur.id
               ELSE disk'[cur.path][k] = disk[cur.path][k]]_vars

\* C36: whenever the save queue of the index is idle, index.json holds the
\* index as it is in memory, currentId included.
C36_IndexSavedWhenIdle == ~idx.isProcessing => indexFile = store

\* the save queue is idle after three mutations that left two keys, and the
\* file holds both
C36_Witness ==
  /\ ~idx.isProcessing
  /\ calls = MaxCalls
  /\ Len(store.ranges) >= 2
  /\ store.currentId # 0
  /\ indexFile = store

\* C37: when update(id, p2) is called while the task of update(id, p1) has
\* not returned, p1 and p2 setting different fields of a stored document,
\* the document holds the fields of both once both tasks have returned.
C37_NoLostUpdate ==
  [][(/\ cur.op = "update" /\ cur.known /\ cur' = NoTask
      /\ done.op = "update" /\ done.id = cur.id
      /\ done.status = "ok" /\ done.value # Undefined
      /\ (DOMAIN done.data) \cap (DOMAIN cur.data) = {}
      /\ "id" \notin (DOMAIN done.data) \cup (DOMAIN cur.data))
       => LET doc == Find(ReadJsonFile(disk', cur.path), cur.id)
          IN /\ doc # Undefined
             /\ \A f \in DOMAIN done.data : f \in DOMAIN doc /\ doc[f] = done.data[f]
             /\ \A f \in DOMAIN cur.data : f \in DOMAIN doc /\ doc[f] = cur.data[f]]_vars

\* the second of two updates called one after the other without awaiting
\* has resolved with a document that has the fields of both payloads
C37_Witness ==
  /\ done.op = "update" /\ done.known /\ done.status = "ok"
  /\ done.value # Undefined
  /\ {"a", "b"} \subseteq DOMAIN done.value
  /\ done.value.a = 2 /\ done.value.b = 3
  /\ GetOutcome(store, disk, done.id).value = done.value

\* C38: when get, update or delete of id is called after the insert that
\* was given id and before that insert has resolved, the task of the insert
\* runs or is queued already, so that it executes before the later call's.
C38_InsertTaskGoesFirst ==
  [][(calls' = calls + 1 /\ insDocs' = insDocs)
       => LET i == IF queue' # queue THEN queue'[Len(queue')].id
                   ELSE IF cur' # cur /\ cur' # NoTask THEN cur'.id
                   ELSE done'.id
          IN (i \in 1..id /\ i \notin insDone)
               => \/ cur.op = "insert" /\ cur.id = i
                  \/ \E k \in 1..Len(queue) : queue[k].op = "insert" /\ queue[k].id = i]_vars

\* C39: an instance constructed over the directory of an instance that
\* ended with nothing pending and its index saved starts with an id counter
\* no lower than the last id that instance gave out, so its first insert
\* gets an id above all of them.
C39_IdsGoOnAfterReopen ==
  [][(~up /\ up' /\ prev.clean) => NextId(id') > prev.id]_vars

\* C40: where with order 'desc' and no limit resolves with the reverse of
\* what where with order 'asc' and the same filter resolves with over the
\* same files.
C40_DescIsReverseOfAsc ==
  [][(cur.op = "where" /\ cur' = NoTask /\ cur.order = "desc" /\ cur.limit = NoLimit)
       => done'.values =
            Reverse(Scan(disk, WhereFiles(disk, "asc"), [cur EXCEPT !.order = "asc"],
                         <<>>, 0))]_vars

\* where has resolved with the three documents of two shard files, the
\* last one inserted first
C40_Witness ==
  /\ done.op = "where" /\ done.status = "ok"
  /\ Len(done.values) = 3
  /\ done.values[1].id = 3 /\ done.values[2].id = 2 /\ done.values[3].id = 1
  /\ Len(DirFiles(disk)) = 2

====
